---- MODULE Spec2Model ----
(***************************************************************************)
(* Crust: a stack-based bytecode interpreter (explodes/go-crust).          *)
(* The parser (program.go) turns whitespace-separated tokens into a flat   *)
(* instruction sequence and a jump table; the interpreter (interpreter.go) *)
(* steps over it with an instruction pointer, an operand stack and an      *)
(* output writer.  Text is modelled as a sequence of one-character strings *)
(* so that tokenising, strconv.Atoi and fmt.Fprint are computed, and the   *)
(* native int is modelled with a reduced width of IntBits bits.            *)
(***************************************************************************)
EXTENDS Integers, Sequences, FiniteSets

VARIABLES
  tokens,     \* the words bufio.ScanWords delivers for the program text
  parseErr,   \* error of NewProgramFromReader ("nil" when it succeeded)
  program,    \* Program{instructions, jumpTable}
  ip,         \* Interpreter.ip
  stack,      \* Interpreter.stack
  stdout,     \* what has been written to Interpreter.stdout
  lastErr,    \* what the most recent call of Step returned ("none": no call)
  pre,        \* the interpreter fields as they were when that call began
  runPc,      \* position of Run: "idle", "running" (in its loop), "returned"
  runResult   \* what Run returned

vars == <<tokens, parseErr, program, ip, stack, stdout, lastErr, pre, runPc, runResult>>

---------------------------------------------------------------------------
(* Bounds of the model *)

\* width in bits of the modelled native int (Go: 64)
IntBits == 5
\* lines of the enumerated programs
MaxLines == 3
\* words of the enumerated word streams
MaxTokens == 4
\* the operand stack is followed up to this depth
MaxStack == 3
\* the output is followed up to this many characters
MaxOut == 24
\* a text value is followed up to this many characters
MaxStr == 12

RECURSIVE Pow2(_)
Pow2(n) ==
  IF n = 0 THEN 1 ELSE 2 * Pow2(n - 1)

MinInt == -Pow2(IntBits - 1)
MaxInt == Pow2(IntBits - 1) - 1
IntRange == MinInt..MaxInt

\* two's-complement wrap-around of the native int
WrapInt(x) ==
  ((x + Pow2(IntBits - 1)) % Pow2(IntBits)) - Pow2(IntBits - 1)

---------------------------------------------------------------------------
(* Text: characters, strconv.Atoi, fmt.Fprint *)

Digits == <<"0", "1", "2", "3", "4", "5", "6", "7", "8", "9">>

IsDigit(c) == \E d \in 1..10 : Digits[d] = c

DigitVal(c) == (CHOOSE d \in 1..10 : Digits[d] = c) - 1

IsSpace(c) == c \in {" ", "\n", "\t", "\r"}

\* bufio.ScanWords: the maximal runs of non-space characters, in order
RECURSIVE ScanWords(_)
ScanWords(text) ==
  LET n == Len(text)
      starts == {k \in 1..n : ~IsSpace(text[k])}
  IN IF starts = {} THEN <<>>
     ELSE LET s == CHOOSE k \in starts : \A j \in starts : k <= j
              ends == {k \in s..n : IsSpace(text[k])}
              e == IF ends = {} THEN n + 1
                   ELSE CHOOSE k \in ends : \A j \in ends : k <= j
          IN <<SubSeq(text, s, e - 1)>> \o ScanWords(SubSeq(text, e, n))

RECURSIVE DigitsValue(_)
DigitsValue(ds) ==
  IF ds = <<>> THEN 0
  ELSE 10 * DigitsValue(SubSeq(ds, 1, Len(ds) - 1)) + DigitVal(ds[Len(ds)])

\* strconv.Atoi: optional sign, then decimal digits, within the native range
Atoi(s) ==
  LET signed == s # <<>> /\ s[1] \in {"+", "-"}
      ds == IF signed THEN Tail(s) ELSE s
  IN IF ds = <<>> \/ \E k \in 1..Len(ds) : ~IsDigit(ds[k])
       THEN [v |-> 0, err |-> "invalid syntax"]
     ELSE LET mag == DigitsValue(ds)
              n == IF signed /\ s[1] = "-" THEN -mag ELSE mag
          IN IF n < MinInt \/ n > MaxInt
               THEN [v |-> 0, err |-> "value out of range"]
             ELSE [v |-> n, err |-> "nil"]

RECURSIVE FormatUint(_)
FormatUint(u) ==
  IF u < 10 THEN <<Digits[u + 1]>>
  ELSE Append(FormatUint(u \div 10), Digits[(u % 10) + 1])

\* decimal text of a native int, as fmt prints it
Itoa(n) ==
  IF n < 0 THEN <<"-">> \o FormatUint(-n) ELSE FormatUint(n)

---------------------------------------------------------------------------
(* Cells of the instruction sequence and values of the stack *)

OpCell(o) == [kind |-> "op", op |-> o]
IntCell(n) == [kind |-> "int", i |-> n]
StrCell(t) == [kind |-> "string", s |-> t]
NilCell == [kind |-> "nil"]

OpPutln == 1
OpDup == 2
OpPut == 3
OpJump == 4
OpJumpLessThan == 5
OpIpush == 11
OpIadd == 12
OpIsubtract == 14
OpSpush == 21
OpSadd == 22

InstructionPutln == <<"p", "u", "t", "l", "n">>
InstructionDup == <<"d", "u", "p">>
InstructionPut == <<"p", "u", "t">>
InstructionJump == <<"j", "u", "m", "p">>
InstructionJumpLessThan == <<"j", "u", "m", "p", "l">>
InstructionIpush == <<"i", "p", "u", "s", "h">>
InstructionIadd == <<"i", "a", "d", "d">>
InstructionIsubtract == <<"i", "s", "u", "b">>
InstructionSpush == <<"s", "p", "u", "s", "h">>
InstructionSadd == <<"s", "a", "d", "d">>

argInt == 0
argString == 1

\* the map lookup `signature, ok := instructionSignatures[token]`
instructionSignatures(token) ==
  CASE token = InstructionPutln -> [ok |-> TRUE, op |-> OpPutln, args |-> <<>>]
    [] token = InstructionDup -> [ok |-> TRUE, op |-> OpDup, args |-> <<>>]
    [] token = InstructionPut -> [ok |-> TRUE, op |-> OpPut, args |-> <<>>]
    [] token = InstructionJump -> [ok |-> TRUE, op |-> OpJump, args |-> <<argInt>>]
    [] token = InstructionJumpLessThan ->
         [ok |-> TRUE, op |-> OpJumpLessThan, args |-> <<argInt, argInt>>]
    [] token = InstructionIpush -> [ok |-> TRUE, op |-> OpIpush, args |-> <<argInt>>]
    [] token = InstructionIadd -> [ok |-> TRUE, op |-> OpIadd, args |-> <<>>]
    [] token = InstructionIsubtract -> [ok |-> TRUE, op |-> OpIsubtract, args |-> <<>>]
    [] token = InstructionSpush -> [ok |-> TRUE, op |-> OpSpush, args |-> <<argString>>]
    [] token = InstructionSadd -> [ok |-> TRUE, op |-> OpSadd, args |-> <<>>]
    [] OTHER -> [ok |-> FALSE, op |-> 0, args |-> <<>>]

---------------------------------------------------------------------------
(* The parser.  The scanner is the token sequence and the number of tokens *)
(* already consumed (pos).                                                 *)

nextIntArg(toks, pos) ==
  IF pos >= Len(toks) THEN [err |-> "end of program", cell |-> NilCell, pos |-> pos]
  ELSE LET r == Atoi(toks[pos + 1])
       IN [err |-> r.err, cell |-> IntCell(r.v), pos |-> pos + 1]

\* nextString that does not look at the result of Scan
nextStringArg_unchecked(toks, pos) ==
  IF pos >= Len(toks) THEN [err |-> "nil", cell |-> StrCell(<<>>), pos |-> pos]
  ELSE [err |-> "nil", cell |-> StrCell(toks[pos + 1]), pos |-> pos + 1]

nextStringArg(toks, pos) ==
  IF pos >= Len(toks) THEN [err |-> "end of program", cell |-> NilCell, pos |-> pos]
  ELSE [err |-> "nil", cell |-> StrCell(toks[pos + 1]), pos |-> pos + 1]

getArgument(toks, pos, argType) ==
  CASE argType = argInt -> nextIntArg(toks, pos)
    [] argType = argString -> nextStringArg(toks, pos)
    [] OTHER -> [err |-> "unknown argument type", cell |-> NilCell, pos |-> pos]

\* the loop `for index, argType := range signature.args` of parseOp
RECURSIVE parseArgs(_, _, _, _)
parseArgs(toks, pos, args, cells) ==
  IF args = <<>> THEN [err |-> "nil", cells |-> cells, pos |-> pos]
  ELSE LET a == getArgument(toks, pos, Head(args))
       IN IF a.err # "nil" THEN [err |-> a.err, cells |-> <<>>, pos |-> a.pos]
          ELSE parseArgs(toks, a.pos, Tail(args), Append(cells, a.cell))

\* parseOp: the cells of one line (n = Len(cells)), or an error
parseOp(token, toks, pos) ==
  LET signature == instructionSignatures(token)
  IN IF ~signature.ok THEN [err |-> "invalid instruction", cells |-> <<>>, pos |-> pos]
     ELSE parseArgs(toks, pos, signature.args, <<OpCell(signature.op)>>)

\* parseProgram that notes the length after the line has been appended
RECURSIVE parseLoop_afterAppend(_, _, _, _)
parseLoop_afterAppend(toks, pos, instructions, jumpTable) ==
  IF pos >= Len(toks)
    THEN [err |-> "nil", instructions |-> instructions, jumpTable |-> jumpTable]
  ELSE LET r == parseOp(toks[pos + 1], toks, pos + 1)
       IN IF r.err # "nil"
            THEN [err |-> r.err, instructions |-> <<>>, jumpTable |-> <<>>]
          ELSE IF Len(r.cells) > 0
            THEN parseLoop_afterAppend(toks, r.pos, instructions \o r.cells,
                                       Append(jumpTable, Len(instructions \o r.cells)))
          ELSE parseLoop_afterAppend(toks, r.pos, instructions, jumpTable)

\* the loop `for in.Scan()` of parseProgram
RECURSIVE parseLoop(_, _, _, _)
parseLoop(toks, pos, instructions, jumpTable) ==
  IF pos >= Len(toks)
    THEN [err |-> "nil", instructions |-> instructions, jumpTable |-> jumpTable]
  ELSE LET r == parseOp(toks[pos + 1], toks, pos + 1)
       IN IF r.err # "nil"
            THEN [err |-> r.err, instructions |-> <<>>, jumpTable |-> <<>>]
          ELSE IF Len(r.cells) > 0
            THEN parseLoop(toks, r.pos, instructions \o r.cells,
                           Append(jumpTable, Len(instructions)))
          ELSE parseLoop(toks, r.pos, instructions, jumpTable)

parseProgram(toks) ==
  parseLoop(toks, 0, <<>>, <<>>)

\* NewProgramFromReader: scan the words of the text and parse them
NewProgramFromReader(text) ==
  LET toks == ScanWords(text)
      r == parseProgram(toks)
  IN [tokens |-> toks, err |-> r.err,
      program |-> [instructions |-> r.instructions, jumpTable |-> r.jumpTable]]

---------------------------------------------------------------------------
(* The interpreter.  m is the record of what a Step can reach: the fields  *)
(* ip, stack, stdout and the program the interpreter points to.  An        *)
(* operation yields m after it and the error it returns ("nil": none).     *)

EOF == "EOF"
ErrStackEmpty == "stack is empty"
ErrNotInt == "value not int"
ErrNotString == "value not string"
ErrInvalidJump == "invalid jump index"
ErrNotOpCode == "invalid program, not an op code"
ErrInvalidOpCode == "invalid op code"

push(m, v) ==
  [m EXCEPT !.stack = Append(@, v)]

\* pop without the check for an empty stack
pop_unchecked(m) ==
  IF Len(m.stack) = 0 THEN [m |-> m, v |-> NilCell, err |-> "nil"]
  ELSE [m |-> [m EXCEPT !.stack = SubSeq(@, 1, Len(@) - 1)],
        v |-> m.stack[Len(m.stack)], err |-> "nil"]

pop(m) ==
  IF Len(m.stack) = 0 THEN [m |-> m, v |-> NilCell, err |-> ErrStackEmpty]
  ELSE [m |-> [m EXCEPT !.stack = SubSeq(@, 1, Len(@) - 1)],
        v |-> m.stack[Len(m.stack)], err |-> "nil"]

\* peek that hands out the nil value of an empty stack without an error
peek_unchecked(m) ==
  IF Len(m.stack) = 0 THEN [m |-> m, v |-> NilCell, err |-> "nil"]
  ELSE [m |-> m, v |-> m.stack[Len(m.stack)], err |-> "nil"]

\* peek that removes the value it returns
peek_pops(m) ==
  IF Len(m.stack) = 0 THEN [m |-> m, v |-> NilCell, err |-> ErrStackEmpty]
  ELSE [m |-> [m EXCEPT !.stack = SubSeq(@, 1, Len(@) - 1)],
        v |-> m.stack[Len(m.stack)], err |-> "nil"]

peek(m) ==
  IF Len(m.stack) = 0 THEN [m |-> m, v |-> NilCell, err |-> ErrStackEmpty]
  ELSE [m |-> m, v |-> m.stack[Len(m.stack)], err |-> "nil"]

\* asInt that takes any other value for 0
asInt_coerces(v) ==
  IF v.kind = "int" THEN [v |-> v.i, err |-> "nil"]
  ELSE [v |-> 0, err |-> "nil"]

asInt(v) ==
  IF v.kind = "int" THEN [v |-> v.i, err |-> "nil"]
  ELSE [v |-> 0, err |-> ErrNotInt]

asString(v) ==
  IF v.kind = "string" THEN [v |-> v.s, err |-> "nil"]
  ELSE [v |-> <<>>, err |-> ErrNotString]

popInt(m) ==
  LET r == pop(m)
  IN IF r.err # "nil" THEN [m |-> r.m, v |-> 0, err |-> r.err]
     ELSE [m |-> r.m, v |-> asInt(r.v).v, err |-> asInt(r.v).err]

popString(m) ==
  LET r == pop(m)
  IN IF r.err # "nil" THEN [m |-> r.m, v |-> <<>>, err |-> r.err]
     ELSE [m |-> r.m, v |-> asString(r.v).v, err |-> asString(r.v).err]

\* fmt.Fprint of one operand: a string as it is, an int in decimal
Fprint(v) ==
  CASE v.kind = "string" -> v.s
    [] v.kind = "int" -> Itoa(v.i)
    [] v.kind = "op" -> Itoa(v.op)
    [] OTHER -> <<"<", "n", "i", "l", ">">>

toStdout(m, v) ==
  [m EXCEPT !.stdout = @ \o Fprint(v)]

\* jump that takes the line for an index of the table
jump_zeroBased(m, line) ==
  LET index == line
  IN IF index < 0 \/ index >= Len(m.program.jumpTable)
       THEN [m |-> m, err |-> ErrInvalidJump]
     ELSE [m |-> [m EXCEPT !.ip = m.program.jumpTable[index + 1]], err |-> "nil"]

\* jump that takes the index for an offset in the instructions
jump_toCell(m, line) ==
  LET index == line - 1
  IN IF index < 0 \/ index >= Len(m.program.jumpTable)
       THEN [m |-> m, err |-> ErrInvalidJump]
     ELSE [m |-> [m EXCEPT !.ip = index], err |-> "nil"]

jump(m, line) ==
  LET index == line - 1
  IN IF index < 0 \/ index >= Len(m.program.jumpTable)
       THEN [m |-> m, err |-> ErrInvalidJump]
     ELSE [m |-> [m EXCEPT !.ip = m.program.jumpTable[index + 1]], err |-> "nil"]

\* nextInstruction that leaves the pointer where it is
nextInstruction_stays(m) ==
  IF m.ip = Len(m.program.instructions) THEN [m |-> m, v |-> NilCell, err |-> EOF]
  ELSE IF m.ip < 0 \/ m.ip > Len(m.program.instructions)
    THEN [m |-> m, v |-> NilCell, err |-> "panic: index out of range"]
  ELSE [m |-> m, v |-> m.program.instructions[m.ip + 1], err |-> "nil"]

\* nextInstruction that takes the cell out of the instruction sequence
nextInstruction_consumes(m) ==
  IF m.ip = Len(m.program.instructions) THEN [m |-> m, v |-> NilCell, err |-> EOF]
  ELSE IF m.ip < 0 \/ m.ip > Len(m.program.instructions)
    THEN [m |-> m, v |-> NilCell, err |-> "panic: index out of range"]
  ELSE [m |-> [m EXCEPT !.ip = @ + 1,
                        !.program.instructions[m.ip + 1] = NilCell],
        v |-> m.program.instructions[m.ip + 1], err |-> "nil"]

\* nextInstruction that advances the pointer at the end as well
nextInstruction_advancesAtEnd(m) ==
  IF m.ip = Len(m.program.instructions)
    THEN [m |-> [m EXCEPT !.ip = @ + 1], v |-> NilCell, err |-> EOF]
  ELSE IF m.ip < 0 \/ m.ip > Len(m.program.instructions)
    THEN [m |-> m, v |-> NilCell, err |-> "panic: index out of range"]
  ELSE [m |-> [m EXCEPT !.ip = @ + 1], v |-> m.program.instructions[m.ip + 1],
        err |-> "nil"]

nextInstruction(m) ==
  IF m.ip = Len(m.program.instructions) THEN [m |-> m, v |-> NilCell, err |-> EOF]
  ELSE IF m.ip < 0 \/ m.ip > Len(m.program.instructions)
    THEN [m |-> m, v |-> NilCell, err |-> "panic: index out of range"]
  ELSE [m |-> [m EXCEPT !.ip = @ + 1], v |-> m.program.instructions[m.ip + 1],
        err |-> "nil"]

nextInt(m) ==
  LET r == nextInstruction(m)
  IN IF r.err # "nil" THEN [m |-> r.m, v |-> 0, err |-> r.err]
     ELSE [m |-> r.m, v |-> asInt(r.v).v, err |-> asInt(r.v).err]

nextString(m) ==
  LET r == nextInstruction(m)
  IN IF r.err # "nil" THEN [m |-> r.m, v |-> <<>>, err |-> r.err]
     ELSE [m |-> r.m, v |-> asString(r.v).v, err |-> asString(r.v).err]

(* executeOp, one definition per case of its switch *)

opPutln(m) ==
  [m |-> toStdout(m, StrCell(<<"\n">>)), err |-> "nil"]

opDup(m) ==
  LET r == peek(m)
  IN IF r.err # "nil" THEN [m |-> r.m, err |-> r.err]
     ELSE [m |-> push(r.m, r.v), err |-> "nil"]

\* put that prints what pop returned before it looks at the error
opPut_printsAnyway(m) ==
  LET r == pop(m)
  IN IF r.err # "nil" THEN [m |-> toStdout(r.m, r.v), err |-> r.err]
     ELSE [m |-> toStdout(r.m, r.v), err |-> "nil"]

opPut(m) ==
  LET r == pop(m)
  IN IF r.err # "nil" THEN [m |-> r.m, err |-> r.err]
     ELSE [m |-> toStdout(r.m, r.v), err |-> "nil"]

opJump(m) ==
  LET line == nextInt(m)
  IN IF line.err # "nil" THEN [m |-> line.m, err |-> line.err]
     ELSE jump(line.m, line.v)

\* jumpl that jumps when the top is less than or equal to the value
opJumpLessThan_orEqual(m) ==
  LET value == nextInt(m)
      line == nextInt(value.m)
      top == popInt(line.m)
  IN IF value.err # "nil" THEN [m |-> value.m, err |-> value.err]
     ELSE IF line.err # "nil" THEN [m |-> line.m, err |-> line.err]
     ELSE IF top.err # "nil" THEN [m |-> top.m, err |-> top.err]
     ELSE IF top.v <= value.v THEN [m |-> jump(top.m, line.v).m, err |-> "nil"]
     ELSE [m |-> top.m, err |-> "nil"]

\* the error of i.jump(line) is dropped and nil is returned
opJumpLessThan(m) ==
  LET value == nextInt(m)
      line == nextInt(value.m)
      top == popInt(line.m)
  IN IF value.err # "nil" THEN [m |-> value.m, err |-> value.err]
     ELSE IF line.err # "nil" THEN [m |-> line.m, err |-> line.err]
     ELSE IF top.err # "nil" THEN [m |-> top.m, err |-> top.err]
     ELSE IF top.v < value.v THEN [m |-> jump(top.m, line.v).m, err |-> "nil"]
     ELSE [m |-> top.m, err |-> "nil"]

opIpush(m) ==
  LET value == nextInt(m)
  IN IF value.err # "nil" THEN [m |-> value.m, err |-> value.err]
     ELSE [m |-> push(value.m, IntCell(value.v)), err |-> "nil"]

\* iadd that subtracts
opIadd_subtracts(m) ==
  LET a == popInt(m)
      b == popInt(a.m)
  IN IF a.err # "nil" THEN [m |-> a.m, err |-> a.err]
     ELSE IF b.err # "nil" THEN [m |-> b.m, err |-> b.err]
     ELSE [m |-> push(b.m, IntCell(WrapInt(b.v - a.v))), err |-> "nil"]

opIadd(m) ==
  LET a == popInt(m)
      b == popInt(a.m)
  IN IF a.err # "nil" THEN [m |-> a.m, err |-> a.err]
     ELSE IF b.err # "nil" THEN [m |-> b.m, err |-> b.err]
     ELSE [m |-> push(b.m, IntCell(WrapInt(b.v + a.v))), err |-> "nil"]

\* isub in pop order: top minus the value below
opIsubtract_popOrder(m) ==
  LET a == popInt(m)
      b == popInt(a.m)
  IN IF a.err # "nil" THEN [m |-> a.m, err |-> a.err]
     ELSE IF b.err # "nil" THEN [m |-> b.m, err |-> b.err]
     ELSE [m |-> push(b.m, IntCell(WrapInt(a.v - b.v))), err |-> "nil"]

opIsubtract(m) ==
  LET a == popInt(m)
      b == popInt(a.m)
  IN IF a.err # "nil" THEN [m |-> a.m, err |-> a.err]
     ELSE IF b.err # "nil" THEN [m |-> b.m, err |-> b.err]
     ELSE [m |-> push(b.m, IntCell(WrapInt(b.v - a.v))), err |-> "nil"]

opSpush(m) ==
  LET value == nextString(m)
  IN IF value.err # "nil" THEN [m |-> value.m, err |-> value.err]
     ELSE [m |-> push(value.m, StrCell(value.v)), err |-> "nil"]

\* sadd in pop order: top followed by the value below
opSadd_popOrder(m) ==
  LET a == popString(m)
      b == popString(a.m)
  IN IF a.err # "nil" THEN [m |-> a.m, err |-> a.err]
     ELSE IF b.err # "nil" THEN [m |-> b.m, err |-> b.err]
     ELSE [m |-> push(b.m, StrCell(a.v \o b.v)), err |-> "nil"]

opSadd(m) ==
  LET a == popString(m)
      b == popString(a.m)
  IN IF a.err # "nil" THEN [m |-> a.m, err |-> a.err]
     ELSE IF b.err # "nil" THEN [m |-> b.m, err |-> b.err]
     ELSE [m |-> push(b.m, StrCell(b.v \o a.v)), err |-> "nil"]

executeOp(op, m) ==
  CASE op = OpPutln -> opPutln(m)
    [] op = OpDup -> opDup(m)
    [] op = OpPut -> opPut(m)
    [] op = OpJump -> opJump(m)
    [] op = OpJumpLessThan -> opJumpLessThan(m)
    [] op = OpIpush -> opIpush(m)
    [] op = OpIadd -> opIadd(m)
    [] op = OpIsubtract -> opIsubtract(m)
    [] op = OpSpush -> opSpush(m)
    [] op = OpSadd -> opSadd(m)
    [] OTHER -> [m |-> m, err |-> ErrInvalidOpCode]

\* Step: fetch one cell and execute it
Step(m) ==
  LET r == nextInstruction(m)
  IN IF r.err # "nil" THEN [m |-> r.m, err |-> r.err]
     ELSE IF r.v.kind = "op" THEN executeOp(r.v.op, r.m)
     ELSE [m |-> r.m, err |-> ErrNotOpCode]

\* Run that takes the end-of-program signal for success of the Step
RunContinues_pastEnd(err) == err \in {"nil", EOF}

\* Run's handling of what Step returned: loop on, or return
RunContinues(err) == err = "nil"

\* Run that hands the end-of-program signal to its caller
RunReturns_passesEOF(err) == err

RunReturns(err) ==
  IF err = EOF THEN "nil" ELSE err

---------------------------------------------------------------------------
(* Program texts the model is run on *)

RECURSIVE JoinWords(_)
JoinWords(ws) ==
  IF ws = <<>> THEN <<>>
  ELSE IF Len(ws) = 1 THEN ws[1]
  ELSE ws[1] \o <<" ">> \o JoinWords(Tail(ws))

\* one line of text per instruction: the mnemonic and its arguments
RECURSIVE JoinLines(_)
JoinLines(ls) ==
  IF ls = <<>> THEN <<>>
  ELSE JoinWords(Head(ls)) \o <<"\n">> \o JoinLines(Tail(ls))

\* README, "Hello world"
HelloSource ==
  <<"s", "p", "u", "s", "h", " ", "h", "e", "l", "l", "o", "\n">>
  \o <<"s", "p", "u", "s", "h", " ", " ", "-", "\n">>
  \o <<"s", "p", "u", "s", "h", " ", "w", "o", "r", "l", "d", "\n">>
  \o <<"s", "a", "d", "d", "\n">>
  \o <<"s", "a", "d", "d", "\n">>
  \o <<"p", "u", "t", "\n">>

\* README, "Counting"
CountingSource ==
  <<"i", "p", "u", "s", "h", " ", "0", "\n">>
  \o <<"i", "p", "u", "s", "h", " ", "1", "\n">>
  \o <<"i", "a", "d", "d", "\n">>
  \o <<"d", "u", "p", "\n">>
  \o <<"p", "u", "t", "\n">>
  \o <<"p", "u", "t", "l", "n", "\n">>
  \o <<"d", "u", "p", "\n">>
  \o <<"j", "u", "m", "p", "l", " ", "1", "0", " ", "2", "\n">>

PutSource ==
  JoinLines(<< <<InstructionPut>> >>)

SubSource ==
  JoinLines(<< <<InstructionIpush, <<"5">>>>, <<InstructionIpush, <<"3">>>>,
               <<InstructionIsubtract>>, <<InstructionPut>> >>)

DupSource ==
  JoinLines(<< <<InstructionIpush, <<"7">>>>, <<InstructionDup>>,
               <<InstructionIadd>>, <<InstructionPut>> >>)

ExampleSources ==
  {HelloSource, CountingSource, PutSource, SubSource, DupSource}

\* the lines the enumerated programs are made of
NullaryLines ==
  {<<InstructionPutln>>, <<InstructionDup>>, <<InstructionPut>>,
   <<InstructionIadd>>, <<InstructionIsubtract>>, <<InstructionSadd>>}

PushLines ==
  {<<InstructionIpush, <<"1">>>>, <<InstructionSpush, <<"a">>>>}

\* line 0 lies before and line 9 behind every enumerated program
JumpLines ==
  {<<InstructionJump, l>> : l \in {<<"0">>, <<"1">>, <<"9">>}}
  \cup {<<InstructionJumpLessThan, <<"2">>, l>> : l \in {<<"0">>, <<"1">>, <<"9">>}}

LineSet ==
  NullaryLines \cup PushLines \cup JumpLines

EnumeratedSources ==
  {JoinLines(ls) : ls \in UNION {[1..k -> LineSet] : k \in 0..MaxLines}}

\* operands of the arithmetic programs: every native int
PushInt(n) == <<InstructionIpush, Itoa(n)>>

Words == {<<"a">>, <<"b", "c">>, <<"-">>}

PushWord(w) == <<InstructionSpush, w>>

EdgeInts == {MinInt, -1, 0, 1, MaxInt}

ArithSources ==
  {JoinLines(<<PushInt(a), PushInt(b), <<o>>, <<InstructionPut>>>>) :
     a \in IntRange, b \in IntRange, o \in {InstructionIadd, InstructionIsubtract}}
  \cup {JoinLines(<<PushWord(a), PushWord(b), <<InstructionSadd>>, <<InstructionPut>>>>) :
     a \in Words, b \in Words}
  \cup {JoinLines(<<r, PushInt(a), PushInt(b), <<InstructionIsubtract>>>>) :
     a \in EdgeInts, b \in EdgeInts, r \in {PushInt(1), PushWord(<<"a">>)}}
  \cup {JoinLines(<<r, PushWord(a), PushWord(b), <<InstructionSadd>>>>) :
     a \in Words, b \in Words, r \in {PushInt(1), PushWord(<<"a">>)}}

\* programs whose jumps go to every line, and before and behind the program
JumpTargets == {<<"0">>, <<"1">>, <<"2">>, <<"3">>, <<"4">>}

JumpLineSet ==
  {<<InstructionIpush, <<"1">>>>, <<InstructionIpush, <<"3">>>>,
   <<InstructionSpush, <<"a">>>>, <<InstructionPut>>, <<InstructionPutln>>}
  \cup {<<InstructionJump, l>> : l \in JumpTargets}
  \cup {<<InstructionJumpLessThan, <<"2">>, l>> : l \in JumpTargets}

JumpSources ==
  {JoinLines(ls) : ls \in UNION {[1..k -> JumpLineSet] : k \in 0..MaxLines}}

\* programs without jump and jumpl
StraightSources ==
  {JoinLines(ls) :
     ls \in UNION {[1..k -> NullaryLines \cup PushLines] : k \in 0..MaxLines}}

\* word streams, well-formed or not: mnemonics, integers, a word that is
\* neither, a malformed integer and an integer beyond the native range
TokenWords ==
  {InstructionPut, InstructionIpush, InstructionJumpLessThan, InstructionSpush,
   <<"1">>, <<"+", "2">>, <<"1", "a">>, <<"9", "9">>, <<"z">>}

BlankSource == <<" ", "\n", "\t", " ">>

TokenSources ==
  {JoinWords(ws) : ws \in UNION {[1..k -> TokenWords] : k \in 0..MaxTokens}}
  \cup {BlankSource}

---------------------------------------------------------------------------
(* State machine: a caller builds the program and the interpreter, then    *)
(* calls Step and Run.                                                     *)

Machine == [ip |-> ip, stack |-> stack, stdout |-> stdout, program |-> program]

\* the part of the state space that is followed
WithinBounds(m) ==
  /\ Len(m.stack) <= MaxStack
  /\ Len(m.stdout) <= MaxOut
  /\ \A k \in 1..Len(m.stack) :
       m.stack[k].kind = "string" => Len(m.stack[k].s) <= MaxStr

\* NewProgramFromReader, then NewInterpreter
InitFrom(sources) ==
  \E text \in sources :
    LET p == NewProgramFromReader(text)
    IN /\ tokens = p.tokens
       /\ parseErr = p.err
       /\ program = p.program
       /\ ip = 0
       /\ stack = <<>>
       /\ stdout = <<>>
       /\ lastErr = "none"
       /\ pre = [called |-> FALSE, ip |-> 0, stack |-> <<>>, stdout |-> <<>>,
                 err |-> "none"]
       /\ runPc = "idle"
       /\ runResult = "none"

Init == InitFrom(EnumeratedSources \cup ExampleSources)

\* the effect of one call of Step that returned r
Stepped(r) ==
  /\ WithinBounds(r.m)
  /\ ip' = r.m.ip
  /\ stack' = r.m.stack
  /\ stdout' = r.m.stdout
  /\ program' = r.m.program
  /\ lastErr' = r.err
  /\ pre' = [called |-> TRUE, ip |-> ip, stack |-> stack, stdout |-> stdout,
             err |-> lastErr]

\* the caller calls Step
CallStep ==
  /\ parseErr = "nil"
  /\ runPc \in {"idle", "returned"}
  /\ \E r \in {Step(Machine)} : Stepped(r)
  /\ runPc' = "idle"
  /\ UNCHANGED <<tokens, parseErr, runResult>>

\* the caller calls Run
CallRun ==
  /\ parseErr = "nil"
  /\ runPc \in {"idle", "returned"}
  /\ runPc' = "called"
  /\ runResult' = "none"
  /\ UNCHANGED <<tokens, parseErr, program, ip, stack, stdout, lastErr, pre>>

\* one iteration of the loop of Run
RunLoop ==
  /\ runPc \in {"called", "running"}
  /\ \E r \in {Step(Machine)} :
        /\ Stepped(r)
        /\ IF RunContinues(r.err)
             THEN runPc' = "running" /\ runResult' = runResult
             ELSE runPc' = "returned" /\ runResult' = RunReturns(r.err)
  /\ UNCHANGED <<tokens, parseErr>>

Next == CallStep \/ CallRun \/ RunLoop

Spec == Init /\ [][Next]_vars

\* the README programs and the examples of the specification
InitExamples == InitFrom(ExampleSources)

ExampleSpec == InitExamples /\ [][Next]_vars

\* Run is a plain loop: once called it keeps stepping
FairExampleSpec == ExampleSpec /\ WF_vars(RunLoop)

\* push a, push b, operation: every pair of operands
InitArith == InitFrom(ArithSources)

ArithSpec == InitArith /\ [][Next]_vars

\* programs with jumps to every line
InitJump == InitFrom(JumpSources)

JumpSpec == InitJump /\ [][Next]_vars

\* programs without jumps; Run keeps stepping once it is called
InitStraight == InitFrom(StraightSources)

FairStraightSpec == InitStraight /\ [][Next]_vars /\ WF_vars(RunLoop)

\* word streams that parse and word streams that do not
InitTokens == InitFrom(TokenSources)

ParseSpec == InitTokens /\ [][Next]_vars

---------------------------------------------------------------------------
(* Properties.  pre holds the interpreter fields at the start of the most  *)
(* recent Step, so a property of one Step reads as a state predicate.      *)

PreM ==
  [ip |-> pre.ip, stack |-> pre.stack, stdout |-> pre.stdout, program |-> program]

CellAt(k) == program.instructions[k + 1]

Top(s) == s[Len(s)]

Below(s) == SubSeq(s, 1, Len(s) - 1)

NumLines == Len(program.jumpTable)

AtEnd == ip = Len(program.instructions)

\* the most recent Step began at the opcode cell of op
PreAt(op) ==
  /\ pre.called
  /\ pre.ip < Len(program.instructions)
  /\ CellAt(pre.ip) = OpCell(op)

\* the parsed example programs
CountingProgram == NewProgramFromReader(CountingSource).program
HelloProgram == NewProgramFromReader(HelloSource).program
PutProgram == NewProgramFromReader(PutSource).program
SubProgram == NewProgramFromReader(SubSource).program
DupProgram == NewProgramFromReader(DupSource).program

\* t is the canonical decimal text of n: digits, a minus sign if negative
DecimalOf(t, n) ==
  /\ Atoi(t) = [v |-> n, err |-> "nil"]
  /\ t[1] # "+"
  /\ t = <<"0">> \/ (t[1] # "0" /\ (t[1] = "-" => t[2] # "0"))

\* the last Step began at a jump to a line that does not exist
AtInvalidJump ==
  /\ PreAt(OpJump)
  /\ CellAt(pre.ip + 1).i < 1 \/ CellAt(pre.ip + 1).i > NumLines

\* the last Step began at a jumpl to a line that does not exist, and the
\* top of the stack was an int less than the value
AtInvalidJumpLessThan ==
  /\ PreAt(OpJumpLessThan)
  /\ CellAt(pre.ip + 2).i < 1 \/ CellAt(pre.ip + 2).i > NumLines
  /\ pre.stack # <<>>
  /\ Top(pre.stack).kind = "int"
  /\ Top(pre.stack).i < CellAt(pre.ip + 1).i

\* C1: a jump or a taken jumpl to a line L < 1 or L > number of lines makes
\* Step return the invalid-jump error and leaves the stack as it was.
C1_InvalidJumpFails ==
  (AtInvalidJump \/ AtInvalidJumpLessThan) =>
    (lastErr = ErrInvalidJump /\ stack = pre.stack)

\* C2: Run returns nil exactly when a Step reached the end of the
\* instructions and none failed before; while its loop goes on every Step
\* returned nil; the first other error is returned as it is, with the
\* fields as the failing Step left them; EOF is never returned.
C2_RunReturnsFirstError ==
  /\ runPc = "running" => lastErr = "nil"
  /\ runPc = "returned" =>
       /\ runResult # EOF
       /\ (runResult = "nil") <=> (lastErr = EOF)
       /\ runResult = "nil" => AtEnd
       /\ runResult # "nil" =>
            /\ runResult = lastErr
            /\ Step(PreM) = [m |-> Machine, err |-> runResult]

\* Run returned an error after instructions that wrote output
C2_Witness ==
  /\ runPc = "returned"
  /\ runResult = ErrStackEmpty
  /\ stdout # <<>>

\* C3: a Step that follows a Step that returned EOF returns EOF and leaves
\* the instruction pointer, the stack and the output as they were.
C3_EndIsIdempotent ==
  (pre.called /\ pre.err = EOF) =>
    /\ lastErr = EOF
    /\ ip = pre.ip
    /\ stack = pre.stack
    /\ stdout = pre.stdout

\* Step was called again after EOF, in a program that wrote output
C3_Witness ==
  /\ pre.called
  /\ pre.err = EOF
  /\ lastErr = EOF
  /\ stdout # <<>>
  /\ stack # <<>>

IsCounting == program = CountingProgram

CountingOutput ==
  <<"1", "\n", "2", "\n", "3", "\n", "4", "\n", "5", "\n", "6", "\n", "7", "\n",
    "8", "\n", "9", "\n", "1", "0", "\n">>

\* C4: Run of the counting program returns nil, having written the numbers
\* 1 to 10, each followed by a newline; its jumpl goes back to line 2
\* exactly when the popped counter is less than 10, and ends the program
\* otherwise.
C4_CountingTerminates ==
  /\ [](IsCounting /\ lastErr = EOF => stdout = CountingOutput)
  /\ [](IsCounting /\ PreAt(OpJumpLessThan) =>
          /\ lastErr = "nil"
          /\ (ip = program.jumpTable[2]) <=> (Top(pre.stack).i < 10)
          /\ AtEnd <=> (Top(pre.stack).i >= 10))
  /\ (IsCounting /\ runPc = "called") ~>
       (runPc = "returned" /\ runResult = "nil" /\ stdout = CountingOutput)

\* Run of the counting program has returned nil with the ten lines written
C4_Witness ==
  /\ IsCounting
  /\ runPc = "returned"
  /\ runResult = "nil"
  /\ stdout = CountingOutput
  /\ stack = <<IntCell(10)>>

IsHello == program = HelloProgram

HelloSpaced ==
  <<"h", "e", "l", "l", "o", " ", "-", " ", "w", "o", "r", "l", "d">>

HelloJoined ==
  <<"h", "e", "l", "l", "o", "-", "w", "o", "r", "l", "d">>

\* C5 as stated: the hello-world program writes "hello - world".
C5_HelloSpaced ==
  (IsHello /\ lastErr = EOF) => stdout = HelloSpaced

\* C5 amended: the hello-world program writes "hello-world" and nothing
\* else: a text operand is one whitespace-delimited word, so the separator
\* is "-" without spaces around it.
C5_HelloJoined ==
  IsHello =>
    /\ tokens[4] = <<"-">>
    /\ stdout = (IF AtEnd THEN HelloJoined ELSE <<>>)

C5_Witness ==
  /\ IsHello
  /\ lastErr = EOF
  /\ stack = <<>>
  /\ stdout = HelloJoined

PopsOrPeeks ==
  {OpPut, OpDup, OpIadd, OpIsubtract, OpSadd, OpJumpLessThan}

\* C6: put, dup, iadd, isub, sadd and jumpl on an empty stack make Step
\* return the stack-is-empty error and write nothing; the program `put`
\* fails so and writes nothing.
C6_EmptyStackFails ==
  /\ \A op \in PopsOrPeeks :
       (PreAt(op) /\ pre.stack = <<>>) =>
         (lastErr = ErrStackEmpty /\ stdout = pre.stdout)
  /\ (program = PutProgram /\ pre.called) =>
       (lastErr \in {ErrStackEmpty, EOF} /\ stdout = <<>>)
  /\ (program = PutProgram /\ runPc = "returned" /\ PreAt(OpPut)) =>
       runResult = ErrStackEmpty

\* Run of the program `put` has returned the stack-is-empty error
C6_Witness ==
  /\ program = PutProgram
  /\ PreAt(OpPut)
  /\ runPc = "returned"
  /\ lastErr = ErrStackEmpty
  /\ stdout = <<>>

\* the failing Step pushed nothing and wrote nothing
NoResult ==
  /\ stdout = pre.stdout
  /\ Len(stack) < Len(pre.stack)
  /\ stack = SubSeq(pre.stack, 1, Len(stack))

BothOfKind(s, kind) ==
  /\ s[Len(s)].kind = kind
  /\ s[Len(s) - 1].kind = kind

\* C7: with two or more values on the stack, iadd on operands that are not
\* both ints fails with value-not-int and sadd on operands that are not
\* both strings fails with value-not-string; nothing is pushed or written.
C7_KindMismatchFails ==
  /\ (PreAt(OpIadd) /\ Len(pre.stack) >= 2 /\ ~BothOfKind(pre.stack, "int")) =>
       (lastErr = ErrNotInt /\ NoResult)
  /\ (PreAt(OpSadd) /\ Len(pre.stack) >= 2 /\ ~BothOfKind(pre.stack, "string")) =>
       (lastErr = ErrNotString /\ NoResult)

\* iadd met a string below an int: both were popped, nothing was pushed
C7_Witness ==
  /\ PreAt(OpIadd)
  /\ Len(pre.stack) = 2
  /\ Top(pre.stack).kind = "int"
  /\ Top(Below(pre.stack)).kind = "string"
  /\ lastErr = ErrNotInt
  /\ stack = <<>>
  /\ stdout = <<>>

\* the last Step began at op with the ints a (below) and b (top) on the stack
PreIntOperands(op) ==
  /\ PreAt(op)
  /\ Len(pre.stack) >= 2
  /\ BothOfKind(pre.stack, "int")

PreStringOperands(op) ==
  /\ PreAt(op)
  /\ Len(pre.stack) >= 2
  /\ BothOfKind(pre.stack, "string")

\* the last Step replaced the two topmost values by v and wrote nothing
ReplacedTopTwoBy(v) ==
  /\ lastErr = "nil"
  /\ stack = Append(Below(Below(pre.stack)), v)
  /\ stdout = pre.stdout

SaddInPushOrder ==
  PreStringOperands(OpSadd) =>
    ReplacedTopTwoBy(StrCell(Top(Below(pre.stack)).s \o Top(pre.stack).s))

SubExample ==
  (program = SubProgram /\ AtEnd) => stdout = <<"2">>

\* C8 as stated: isub replaces a, b (b on top) by the integer a-b for all
\* ints a and b, sadd replaces them by a followed by b; the stack below is
\* unchanged; `ipush 5; ipush 3; isub; put` writes 2.
C8_PushOrder ==
  /\ PreIntOperands(OpIsubtract) =>
       ReplacedTopTwoBy(IntCell(Top(Below(pre.stack)).i - Top(pre.stack).i))
  /\ SaddInPushOrder
  /\ SubExample

\* C8 amended: isub replaces a, b (b on top) by a-b computed in the native
\* int, which is a-b when that is in the native range and wraps around
\* otherwise; sadd replaces them by a followed by b; the stack below is
\* unchanged; `ipush 5; ipush 3; isub; put` writes 2.
C8_PushOrderNative ==
  /\ PreIntOperands(OpIsubtract) =>
       LET a == Top(Below(pre.stack)).i
           b == Top(pre.stack).i
       IN /\ ReplacedTopTwoBy(IntCell(WrapInt(a - b)))
          /\ (a - b) \in IntRange => Top(stack).i = a - b
          /\ Top(stack).i \in IntRange
  /\ SaddInPushOrder
  /\ SubExample

\* isub took 1 from the least int, below a value that stayed in place
C8_Witness ==
  /\ PreIntOperands(OpIsubtract)
  /\ Len(pre.stack) = 3
  /\ Top(Below(pre.stack)).i = MinInt
  /\ Top(pre.stack).i = 1
  /\ stack = <<pre.stack[1], IntCell(MaxInt)>>

\* the program is `ipush N; ipush M; iadd; put` for some ints N and M
IsAddProgram ==
  /\ Len(program.instructions) = 6
  /\ program.instructions[2].kind = "int"
  /\ program.instructions[4].kind = "int"
  /\ program.instructions =
       <<OpCell(OpIpush), program.instructions[2], OpCell(OpIpush),
         program.instructions[4], OpCell(OpIadd), OpCell(OpPut)>>

AddN == program.instructions[2].i

AddM == program.instructions[4].i

\* `ipush N; ipush M; iadd; put` writes nothing before its end, where it has
\* written the decimal text of sum and left the stack empty, and Run
\* returns nil at that end
AddWrites(sum) ==
  /\ (AtEnd /\ lastErr # ErrStackEmpty) => (DecimalOf(stdout, sum) /\ stack = <<>>)
  /\ ~AtEnd => (stdout = <<>> /\ lastErr \in {"none", "nil"})
  /\ runPc = "returned" => (runResult = "nil" /\ AtEnd)

\* C9 as stated: for all N and M in the native range, `ipush N; ipush M;
\* iadd; put` ends with success, writes the decimal text of N+M and leaves
\* the stack empty.
C9_AddWritesSum ==
  IsAddProgram => AddWrites(AddN + AddM)

\* C9 amended: it writes the decimal text of N+M computed in the native int:
\* of N+M when N+M is in the native range, of N+M wrapped around otherwise.
C9_AddWritesNativeSum ==
  IsAddProgram =>
    /\ AddN \in IntRange /\ AddM \in IntRange
    /\ AddWrites(WrapInt(AddN + AddM))
    /\ (AddN + AddM) \in IntRange => AddWrites(AddN + AddM)

\* Run of `ipush -3; ipush 5; iadd; put` has returned nil and written 2
C9_Witness ==
  /\ IsAddProgram
  /\ AddN = -3
  /\ AddM = 5
  /\ runPc = "returned"
  /\ runResult = "nil"
  /\ stdout = <<"2">>
  /\ stack = <<>>

\* C10: dup on a stack ..., v yields ..., v, v: the stack grows by one, the
\* values below are unchanged and nothing is written; `ipush 7; dup; iadd;
\* put` writes 14.
C10_DupKeepsValue ==
  /\ (PreAt(OpDup) /\ pre.stack # <<>>) =>
       /\ lastErr = "nil"
       /\ stack = Append(pre.stack, Top(pre.stack))
       /\ stdout = pre.stdout
  /\ (program = DupProgram /\ AtEnd) => stdout = <<"1", "4">>

\* dup copied the top of a stack of two values
C10_Witness ==
  /\ PreAt(OpDup)
  /\ Len(pre.stack) = 2
  /\ Len(stack) = 3
  /\ stack[3] = stack[2]
  /\ stack[1] # stack[2]

\* C11: an empty word stream parses to a program of no instructions and no
\* jump-table entries; Run of it returns nil at its first Step, which
\* executes nothing: no output, an empty stack, the pointer at 0.
C11_EmptyProgramRuns ==
  tokens = <<>> =>
    /\ parseErr = "nil"
    /\ program = [instructions |-> <<>>, jumpTable |-> <<>>]
    /\ ip = 0
    /\ stack = <<>>
    /\ stdout = <<>>
    /\ lastErr \in {"none", EOF}
    /\ runPc # "running"
    /\ runPc = "returned" => runResult = "nil"

\* Run of the empty program has returned nil
C11_Witness ==
  /\ tokens = <<>>
  /\ runPc = "returned"
  /\ runResult = "nil"
  /\ lastErr = EOF
  /\ pre.called /\ pre.err = "none"

\* kinds of the arguments of an opcode (opcode list of the package)
ArgKinds(op) ==
  CASE op = OpJump -> <<"int">>
    [] op = OpJumpLessThan -> <<"int", "int">>
    [] op = OpIpush -> <<"int">>
    [] op = OpSpush -> <<"string">>
    [] OTHER -> <<>>

\* cell c of the instructions is what word c of the text says
CellIsWord(cell, word) ==
  CASE cell.kind = "op" ->
         instructionSignatures(word).ok /\ instructionSignatures(word).op = cell.op
    [] cell.kind = "int" -> Atoi(word) = [v |-> cell.i, err |-> "nil"]
    [] cell.kind = "string" -> cell.s = word
    [] OTHER -> FALSE

\* C12: the jump table of a parsed program has one entry per line; entry k
\* is the offset of the opcode cell of line k, the sum of 1 + arity over the
\* lines before; it is strictly increasing and indexes opcode cells only;
\* the instructions are, line by line, the opcode cell and its argument
\* cells in the order declared.  Stated of the program as the parser left
\* it, before the first Step.
C12_JumpTableOffsets ==
  (parseErr = "nil" /\ ~pre.called) =>
    LET jt == program.jumpTable
        ins == program.instructions
        n == Len(jt)
        LineEnd(k) == IF k < n THEN jt[k + 1] ELSE Len(ins)
    IN /\ n > 0 => jt[1] = 0
       /\ {c - 1 : c \in {d \in 1..Len(ins) : ins[d].kind = "op"}}
            = {jt[k] : k \in 1..n}
       /\ \A k \in 1..n :
            /\ jt[k] < Len(ins)
            /\ ins[jt[k] + 1].kind = "op"
            /\ k < n => jt[k] < jt[k + 1]
            /\ LineEnd(k) = jt[k] + 1 + Len(ArgKinds(ins[jt[k] + 1].op))
            /\ \A a \in 1..Len(ArgKinds(ins[jt[k] + 1].op)) :
                 ins[jt[k] + 1 + a].kind = ArgKinds(ins[jt[k] + 1].op)[a]
       /\ Len(ins) = Len(tokens)
       /\ \A c \in 1..Len(ins) : CellIsWord(ins[c], tokens[c])

\* a parsed program of three lines, the first with two arguments and the
\* second with one
C12_Witness ==
  /\ parseErr = "nil"
  /\ ~pre.called
  /\ program.jumpTable = <<0, 3, 5>>
  /\ Len(program.instructions) = 6
  /\ program.instructions[1] = OpCell(OpJumpLessThan)

\* C13: no Step and no Run changes the instruction sequence or the jump
\* table of the program.
C13_ProgramReadOnly ==
  [][program' = program]_vars

\* Run has returned an error after output was written, and the program is
\* still the one the parser made of the words
C13_Witness ==
  /\ runPc = "returned"
  /\ runResult \notin {"nil", "none"}
  /\ stdout # <<>>
  /\ Len(program.jumpTable) = 3
  /\ [err |-> "nil", instructions |-> program.instructions,
      jumpTable |-> program.jumpTable] = parseProgram(tokens)

\* the last Step began at a jumpl and the top of the stack was an int
PreJumpLessThanOnInt ==
  /\ PreAt(OpJumpLessThan)
  /\ pre.stack # <<>>
  /\ Top(pre.stack).kind = "int"

\* C14: jumpl V L takes V and L from the cells after the opcode and pops one
\* int, the top; if top < V the pointer becomes the jump-table entry of
\* line L, otherwise the offset of the next line (old pointer + 3); the rest
\* of the stack and the output are as before.
C14_JumpLessThan ==
  PreJumpLessThanOnInt =>
    /\ stack = Below(pre.stack)
    /\ stdout = pre.stdout
    /\ IF Top(pre.stack).i < CellAt(pre.ip + 1).i
         THEN /\ CellAt(pre.ip + 2).i \in 1..NumLines
              /\ ip = program.jumpTable[CellAt(pre.ip + 2).i]
       ELSE ip = pre.ip + 3

\* the last Step began at a jump to a line of the program
PreValidJump ==
  /\ PreAt(OpJump)
  /\ CellAt(pre.ip + 1).i \in 1..NumLines

\* C15: jump L with L a line of the program returns nil, sets the pointer to
\* the jump-table entry of line L and leaves stack and output as they were;
\* the cell the next Step fetches is the opcode of line L.
C15_JumpToLine ==
  PreValidJump =>
    /\ lastErr = "nil"
    /\ ip = program.jumpTable[CellAt(pre.ip + 1).i]
    /\ stack = pre.stack
    /\ stdout = pre.stdout
    /\ ip < Len(program.instructions)
    /\ nextInstruction(Machine).v.kind = "op"
    /\ Cardinality({k \in 1..NumLines : program.jumpTable[k] < ip})
         = CellAt(pre.ip + 1).i - 1

\* `ipush 1`, `jump 3`, a third line: the jump at offset 2 went to offset 4
\* with the 1 still on the stack
C15_Witness ==
  /\ PreValidJump
  /\ pre.ip = 2
  /\ CellAt(pre.ip + 1).i = 3
  /\ ip = 4
  /\ stack = <<IntCell(1)>>
  /\ lastErr = "nil"

\* the word is an optional sign and then one or more decimal digits
IsDecimal(word) ==
  LET ds == IF word # <<>> /\ word[1] \in {"+", "-"} THEN Tail(word) ELSE word
  IN ds # <<>> /\ \A k \in 1..Len(ds) : IsDigit(ds[k])

\* the word is a decimal whose value a native int holds
IsNativeDecimal(word) ==
  /\ IsDecimal(word)
  /\ LET ds == IF word[1] \in {"+", "-"} THEN Tail(word) ELSE word
     IN IF word[1] = "-" THEN -DigitsValue(ds) >= MinInt
        ELSE DigitsValue(ds) <= MaxInt

\* the defect of the arguments of one line, whose kinds are kinds and whose
\* words follow word pos: the first argument that is missing or, for an int,
\* not an integer word
RECURSIVE ArgDefect(_, _, _, _)
ArgDefect(toks, pos, kinds, native) ==
  IF kinds = <<>> THEN "none"
  ELSE IF pos >= Len(toks) THEN "truncated"
  ELSE IF Head(kinds) = "int"
          /\ ~(IF native THEN IsNativeDecimal(toks[pos + 1])
               ELSE IsDecimal(toks[pos + 1]))
    THEN "integer"
  ELSE ArgDefect(toks, pos + 1, Tail(kinds), native)

\* the first defect of the words after word pos, read line by line
RECURSIVE FirstDefect(_, _, _)
FirstDefect(toks, pos, native) ==
  IF pos >= Len(toks) THEN "none"
  ELSE IF ~instructionSignatures(toks[pos + 1]).ok THEN "mnemonic"
  ELSE LET kinds == ArgKinds(instructionSignatures(toks[pos + 1]).op)
           d == ArgDefect(toks, pos + 1, kinds, native)
       IN IF d # "none" THEN d
          ELSE FirstDefect(toks, pos + 1 + Len(kinds), native)

\* the defect an error of the parser reports
DefectOf(err) ==
  CASE err = "nil" -> "none"
    [] err = "invalid instruction" -> "mnemonic"
    [] err \in {"invalid syntax", "value out of range"} -> "integer"
    [] err = "end of program" -> "truncated"
    [] OTHER -> "other"

\* a failed parse produced no program, and nothing runs
NoProgramOnError ==
  parseErr # "nil" =>
    /\ program = [instructions |-> <<>>, jumpTable |-> <<>>]
    /\ runPc = "idle"
    /\ ~pre.called

\* C16 as stated: the parser fails exactly at the first unknown mnemonic,
\* int argument that is not a decimal integer, or missing argument, produces
\* no program then, and succeeds when the words have none of these defects.
C16_ParseFailures ==
  /\ DefectOf(parseErr) = FirstDefect(tokens, 0, FALSE)
  /\ NoProgramOnError

\* C16 amended: as above, where an int argument is defective when it is not
\* a decimal integer that a native int holds.
C16_ParseFailuresNative ==
  /\ DefectOf(parseErr) = FirstDefect(tokens, 0, TRUE)
  /\ NoProgramOnError

\* the parser failed at a decimal word too large for a native int, after a
\* line that was well formed
C16_Witness ==
  /\ parseErr = "value out of range"
  /\ Len(tokens) = 4
  /\ tokens[1] = InstructionPut
  /\ IsDecimal(tokens[3])
  /\ program.instructions = <<>>

\* the offsets at which a line begins, and the end of the instructions
LineStarts ==
  {program.jumpTable[k] : k \in 1..NumLines} \cup {Len(program.instructions)}

\* C17: at the start of every Step the pointer is a jump-table entry or the
\* length of the instructions; so no Step fails on a cell that is not an
\* opcode or on an unknown opcode, and no read of an inline argument fails
\* on the kind of the cell or on the end of the instructions.
C17_PointerAtLineStart ==
  /\ ip \in LineStarts
  /\ pre.called => pre.ip \in LineStarts
  /\ lastErr \notin {ErrNotOpCode, ErrInvalidOpCode, "panic: index out of range"}
  /\ (pre.called /\ lastErr = EOF) => pre.ip = Len(program.instructions)
  /\ PreAt(OpIpush) => lastErr = "nil"
  /\ PreAt(OpSpush) => lastErr = "nil"
  /\ PreAt(OpJump) => lastErr \in {"nil", ErrInvalidJump}
  /\ PreAt(OpJumpLessThan) =>
       /\ lastErr \in {"nil", ErrStackEmpty, ErrNotInt}
       /\ lastErr = ErrStackEmpty => pre.stack = <<>>
       /\ lastErr = ErrNotInt =>
            (pre.stack # <<>> /\ Top(pre.stack).kind # "int")

\* `ipush 1`, `jumpl 2 1`: the jumpl at offset 2 read both arguments and
\* went back to the first line
C17_Witness ==
  /\ PreAt(OpJumpLessThan)
  /\ pre.ip = 2
  /\ lastErr = "nil"
  /\ ip = 0
  /\ NumLines >= 2

\* C18: every value on the stack is an int of the native range or a
\* string; no opcode and no nil value is on it.
C18_StackValues ==
  \A k \in 1..Len(stack) :
    \/ stack[k].kind = "int" /\ stack[k].i \in IntRange
                             /\ stack[k] = IntCell(stack[k].i)
    \/ stack[k].kind = "string" /\ stack[k] = StrCell(stack[k].s)

\* an ipush put an int on top of a string
C18_Witness ==
  /\ PreAt(OpIpush)
  /\ Len(stack) = 2
  /\ stack[1].kind = "string"
  /\ stack[2].kind = "int"

\* a is the beginning of b
IsPrefix(a, b) ==
  Len(a) <= Len(b) /\ a = SubSeq(b, 1, Len(a))

\* C19: a Step that returned an error other than the end of the program
\* wrote nothing and pushed nothing: the stack is a prefix of the stack
\* before (at most the two operands are gone); when the output grew, the
\* Step was a put or putln that returned nil.
C19_FailingStepFrame ==
  /\ (pre.called /\ lastErr \notin {"nil", EOF}) =>
       /\ stdout = pre.stdout
       /\ IsPrefix(stack, pre.stack)
       /\ Len(pre.stack) - Len(stack) <= 2
  /\ (pre.called /\ stdout # pre.stdout) =>
       /\ lastErr = "nil"
       /\ PreAt(OpPut) \/ PreAt(OpPutln)

\* `putln`, `ipush 1`, `isub`: the isub popped the 1 and failed on the empty
\* stack, with the output of putln as it was
C19_Witness ==
  /\ PreAt(OpIsubtract)
  /\ lastErr = ErrStackEmpty
  /\ Len(pre.stack) = 1
  /\ stack = <<>>
  /\ stdout = <<"\n">>
  /\ pre.stdout = stdout

\* the number of lines that begin before offset k
LinesBefore(k) ==
  Cardinality({j \in 1..NumLines : program.jumpTable[j] < k})

\* the program has no jump and no jumpl
NoJumps ==
  \A c \in 1..Len(program.instructions) :
    program.instructions[c] \notin {OpCell(OpJump), OpCell(OpJumpLessThan)}

\* a Step that returned nil moved the pointer forward by exactly one line
StepAdvancesOneLine ==
  (NoJumps /\ pre.called /\ lastErr = "nil") =>
    /\ ip > pre.ip
    /\ ip \in LineStarts
    /\ LinesBefore(ip) = LinesBefore(pre.ip) + 1
    /\ LinesBefore(ip) <= NumLines

\* C20: for a program without jump and jumpl every successful Step moves
\* the pointer forward, by one line, so a Run that was called returns
\* (nil, or the first error) after at most as many operations as there are
\* lines.
C20_StraightLineTerminates ==
  /\ [](NoJumps /\ StepAdvancesOneLine)
  /\ (runPc = "called") ~> (runPc = "returned")

\* Run has gone through three lines of pushes and returned nil at the end
C20_Witness ==
  /\ NoJumps
  /\ runPc = "returned"
  /\ runResult = "nil"
  /\ NumLines = 3
  /\ pre.ip = 6
  /\ ip = 6
  /\ Len(stack) = 3

====
